---- MODULE Spec2Model ----
(***************************************************************************)
(* Model of the statistical estimation layer of bias_analysis:             *)
(*   metrics.py      odds ratio, relative risk, rate ratio, aggregator     *)
(*   contingency.py  Contingency2x2 and build_2x2                          *)
(*   logistic.py     type inference, build_design_matrix, fit_logit        *)
(*   cli.py          main in 2x2 mode, from the cohort table on            *)
(* The statistics library fit_logit calls is its environment: which        *)
(* methods the installed build offers and how its solver ends are inputs.  *)
(* Every function of the package is a pure function of its arguments, so   *)
(* a call is one step: the caller picks the arguments, the function's      *)
(* outcome (a returned value or a raised exception) is recorded in res,    *)
(* and Return hands control back to the caller.                            *)
(*                                                                         *)
(* Python floats are modelled in fixed point with Scale units per 1.0;     *)
(* NaN is a value of its own.  An Optional argument is <<>> (None) or a    *)
(* one-element sequence.                                                   *)
(***************************************************************************)
EXTENDS Integers, Sequences, FiniteSets, TLC

VARIABLES op, args, res

vars == <<op, args, res>>

-----------------------------------------------------------------------------
(* Bounds of the model *)

\* largest cell count of a 2x2 table handed to the estimators
MaxCount == 3
\* largest event count / person-time handed to rate_ratio_and_ci
MaxRate == 2
\* largest number of rows of a cohort handed to build_2x2
MaxRows == 3
\* largest number of rows of a table handed to build_design_matrix
MaxDfRows == 3
\* largest number of rows added to the complete rows of a table handed to
\* fit_logit
MaxFitRows == 1
\* most strings of an object column that read as a number, that do not, and
\* most missing values of it
MaxCoercible == 10
MaxText == 2
MaxMissing == 1

-----------------------------------------------------------------------------
(* Floats *)

\* fixed-point units per 1.0
Scale == 1000
\* e in fixed point
EulerFx == 2718

NaN == [kind |-> "nan", v |-> 0]
Num(x) == [kind |-> "num", v |-> x]
IsNaN(f) == f.kind = "nan"
Fx(n) == n * Scale

None == <<>>
Some(x) == <<x>>

MulFx(x, y) == (x \div Scale) * y + ((x % Scale) * y) \div Scale
DivFx(x, y) == (x * Scale) \div y

RECURSIVE SqrtSearch(_, _, _)
SqrtSearch(n, lo, hi) ==
    IF hi - lo <= 1 THEN lo
    ELSE LET mid == (lo + hi) \div 2
         IN IF mid * mid <= n THEN SqrtSearch(n, mid, hi)
                              ELSE SqrtSearch(n, lo, mid)

\* math.sqrt on a non-negative float
SqrtFx(x) == SqrtSearch(x * Scale, 0, x + Scale + 1)

\* ln on [1, e): 2 * atanh((x-1)/(x+1))
LnSeries(x) ==
    LET y  == DivFx(x - Scale, x + Scale)
        y2 == MulFx(y, y)
        y3 == MulFx(y, y2)
        y5 == MulFx(y3, y2)
        y7 == MulFx(y5, y2)
        y9 == MulFx(y7, y2)
    IN 2 * (y + y3 \div 3 + y5 \div 5 + y7 \div 7 + y9 \div 9)

RECURSIVE LnFx(_)
\* math.log on a positive float
LnFx(x) ==
    IF x >= EulerFx THEN Scale + LnFx(DivFx(x, EulerFx))
    ELSE IF x < Scale THEN 0 - LnFx(DivFx(Scale, x))
    ELSE LnSeries(x)

RECURSIVE ExpHorner(_, _)
\* Taylor series of exp on [0, 1), Horner form
ExpHorner(r, n) ==
    IF n > 8 THEN Scale
    ELSE Scale + MulFx(r, ExpHorner(r, n + 1)) \div n

RECURSIVE ExpPos(_)
ExpPos(x) ==
    IF x >= Scale THEN MulFx(ExpPos(x - Scale), EulerFx)
    ELSE ExpHorner(x, 1)

\* math.exp
ExpFx(x) == IF x >= 0 THEN ExpPos(x) ELSE DivFx(Scale, ExpPos(0 - x))

-----------------------------------------------------------------------------
(* Outcomes of a call *)

Returned(v) == [raised |-> "", value |-> v]
Raised(e) == [raised |-> e]

\* dict.update
Update(d1, d2) ==
    [k \in DOMAIN d1 \cup DOMAIN d2 |-> IF k \in DOMAIN d2 THEN d2[k] ELSE d1[k]]

-----------------------------------------------------------------------------
(* metrics.py *)

\* the significance levels a caller passes, in fixed point (0.01, 0.05, 0.5)
AlphaLevels == {10, 50, 500}

\* scipy.stats.norm.ppf(1 - alpha/2) at those levels
ZTable == [alpha \in AlphaLevels |->
             CASE alpha = 10 -> 2576
               [] alpha = 50 -> 1960
               [] alpha = 500 -> 674]

\* mutant: the lower-tail quantile norm.ppf(alpha / 2)
_z_lower_tail(alpha) == 0 - ZTable[alpha]

_z(alpha) == ZTable[alpha]

\* continuity_correction: None, 0.0, 0.5, 1.0
CcValues == {None, Some(0), Some(Scale \div 2), Some(Scale)}

Contingency2x2(a, b, c, d) == [a |-> a, b |-> b, c |-> c, d |-> d]

Min4(a, b, c, d) ==
    CHOOSE m \in {a, b, c, d} : \A x \in {a, b, c, d} : m <= x

\* mutant: a zero cell is imputed with 0.5 when no correction is supplied
_apply_cc_imputing(t, cc) ==
    IF Min4(t.a, t.b, t.c, t.d) = 0
    THEN LET k == IF cc = None THEN Scale \div 2 ELSE cc[1]
         IN <<Num(Fx(t.a) + k), Num(Fx(t.b) + k), Num(Fx(t.c) + k), Num(Fx(t.d) + k)>>
    ELSE <<Num(Fx(t.a)), Num(Fx(t.b)), Num(Fx(t.c)), Num(Fx(t.d))>>

\* mutant: a supplied correction is added whether or not a cell is zero
_apply_cc_unconditional(t, cc) ==
    IF cc = None
    THEN IF Min4(t.a, t.b, t.c, t.d) = 0
         THEN <<NaN, NaN, NaN, NaN>>
         ELSE <<Num(Fx(t.a)), Num(Fx(t.b)), Num(Fx(t.c)), Num(Fx(t.d))>>
    ELSE <<Num(Fx(t.a) + cc[1]), Num(Fx(t.b) + cc[1]),
           Num(Fx(t.c) + cc[1]), Num(Fx(t.d) + cc[1])>>

_apply_cc(t, cc) ==
    IF Min4(t.a, t.b, t.c, t.d) = 0
    THEN IF cc = None
         THEN <<NaN, NaN, NaN, NaN>>
         ELSE <<Num(Fx(t.a) + cc[1]), Num(Fx(t.b) + cc[1]),
                Num(Fx(t.c) + cc[1]), Num(Fx(t.d) + cc[1])>>
    ELSE <<Num(Fx(t.a)), Num(Fx(t.b)), Num(Fx(t.c)), Num(Fx(t.d))>>

AnyNaN(q) == \E i \in DOMAIN q : IsNaN(q[i])

odds_ratio_and_ci(t, alpha, continuity_correction) ==
    LET q == _apply_cc(t, continuity_correction)
        a == q[1].v
        b == q[2].v
        c == q[3].v
        d == q[4].v
    IN IF AnyNaN(q) \/ b = 0 \/ c = 0
       THEN Returned([odds_ratio |-> NaN,
                      odds_ratio_ci_low |-> NaN,
                      odds_ratio_ci_high |-> NaN,
                      alpha |-> alpha,
                      continuity_correction |-> continuity_correction])
       ELSE LET or_ == DivFx(MulFx(a, d), MulFx(b, c))
            IN \* 1.0 / a and 1.0 / d are float divisions
               IF a = 0 \/ d = 0
               THEN Raised("ZeroDivisionError")
               ELSE IF or_ <= 0
               THEN Raised("ValueError")  \* math.log: math domain error
               ELSE LET se == SqrtFx(DivFx(Scale, a) + DivFx(Scale, b)
                                     + DivFx(Scale, c) + DivFx(Scale, d))
                        z  == _z(alpha)
                        lo == ExpFx(LnFx(or_) - MulFx(z, se))
                        hi == ExpFx(LnFx(or_) + MulFx(z, se))
                    IN Returned([odds_ratio |-> Num(or_),
                                 odds_ratio_ci_low |-> Num(lo),
                                 odds_ratio_ci_high |-> Num(hi),
                                 alpha |-> alpha,
                                 continuity_correction |-> continuity_correction])

relative_risk_and_ci(t, alpha, continuity_correction) ==
    LET q == _apply_cc(t, continuity_correction)
        a == q[1].v
        b == q[2].v
        c == q[3].v
        d == q[4].v
        nan_result == Returned([relative_risk |-> NaN,
                                relative_risk_ci_low |-> NaN,
                                relative_risk_ci_high |-> NaN,
                                alpha |-> alpha,
                                continuity_correction |-> continuity_correction])
    IN IF AnyNaN(q) \/ a + b <= 0 \/ c + d <= 0
       THEN nan_result
       ELSE LET risk_exp   == DivFx(a, a + b)
                risk_unexp == DivFx(c, c + d)
            IN IF risk_unexp <= 0
               THEN nan_result
               ELSE LET rr == DivFx(risk_exp, risk_unexp)
                    IN \* 1.0 / a is a float division (c > 0 here)
                       IF a = 0
                       THEN Raised("ZeroDivisionError")
                       ELSE IF rr <= 0
                       THEN Raised("ValueError")  \* math.log: math domain error
                       ELSE LET se == SqrtFx(DivFx(Scale, a) - DivFx(Scale, a + b)
                                             + DivFx(Scale, c) - DivFx(Scale, c + d))
                                z  == _z(alpha)
                                lo == ExpFx(LnFx(rr) - MulFx(z, se))
                                hi == ExpFx(LnFx(rr) + MulFx(z, se))
                            IN Returned([relative_risk |-> Num(rr),
                                         relative_risk_ci_low |-> Num(lo),
                                         relative_risk_ci_high |-> Num(hi),
                                         alpha |-> alpha,
                                         continuity_correction |-> continuity_correction])

\* mutant: person-time is only required to be non-negative
RateInputError_nonnegative_time(events_exposed, time_exposed, events_unexposed, time_unexposed) ==
    \/ time_exposed < 0 \/ time_unexposed < 0
    \/ events_exposed < 0 \/ events_unexposed < 0

\* the two raise ValueError(...) checks that open rate_ratio_and_ci
RateInputError(events_exposed, time_exposed, events_unexposed, time_unexposed) ==
    \/ time_exposed <= 0 \/ time_unexposed <= 0
    \/ events_exposed < 0 \/ events_unexposed < 0

\* events are integers, person-time is a float given here in whole units
rate_ratio_and_ci(events_exposed, time_exposed, events_unexposed, time_unexposed, alpha, continuity_correction) ==
    LET nan_result == Returned([rate_ratio |-> NaN,
                                rate_ratio_ci_low |-> NaN,
                                rate_ratio_ci_high |-> NaN,
                                alpha |-> alpha,
                                continuity_correction |-> continuity_correction])
        zero == events_exposed = 0 \/ events_unexposed = 0
    IN IF RateInputError(events_exposed, time_exposed, events_unexposed, time_unexposed)
       THEN Raised("ValueError")
       ELSE IF zero /\ continuity_correction = None
       THEN nan_result
       ELSE IF time_exposed = 0 \/ time_unexposed = 0
       THEN Raised("ZeroDivisionError")  \* e1 / time_exposed, e0 / time_unexposed
       ELSE LET e1 == Fx(events_exposed)
                      + (IF zero THEN continuity_correction[1] ELSE 0)
                e0 == Fx(events_unexposed)
                      + (IF zero THEN continuity_correction[1] ELSE 0)
                r1 == DivFx(e1, Fx(time_exposed))
                r0 == DivFx(e0, Fx(time_unexposed))
            IN IF r0 <= 0
               THEN nan_result
               ELSE LET rr == DivFx(r1, r0)
                    IN \* 1.0 / e1 is a float division (e0 > 0 here)
                       IF e1 = 0
                       THEN Raised("ZeroDivisionError")
                       ELSE IF rr <= 0
                       THEN Raised("ValueError")  \* math.log: math domain error
                       ELSE LET se == SqrtFx(DivFx(Scale, e1) + DivFx(Scale, e0))
                                z  == _z(alpha)
                                lo == ExpFx(LnFx(rr) - MulFx(z, se))
                                hi == ExpFx(LnFx(rr) + MulFx(z, se))
                            IN Returned([rate_ratio |-> Num(rr),
                                         rate_ratio_ci_low |-> Num(lo),
                                         rate_ratio_ci_high |-> Num(hi),
                                         alpha |-> alpha,
                                         continuity_correction |-> continuity_correction])

\* a raise in either estimator propagates out of the aggregator
compute_bias_metrics(t, alpha, continuity_correction) ==
    LET out == [table |-> t]
        o   == odds_ratio_and_ci(t, alpha, continuity_correction)
        r   == relative_risk_and_ci(t, alpha, continuity_correction)
    IN IF o.raised # "" THEN o
       ELSE IF r.raised # "" THEN r
       ELSE Returned(Update(Update(out, o.value), r.value))

\* the names metrics.py binds at module level
MetricsModule ==
    {"asdict", "Any", "Dict", "Optional", "math", "norm", "Contingency2x2",
     "_z", "_apply_cc", "odds_ratio_and_ci", "relative_risk_and_ci",
     "rate_ratio_and_ci", "compute_bias_metrics"}

\* from bias_analysis.metrics import <name>
ImportFromMetrics(name) ==
    IF name \in MetricsModule THEN Returned(name) ELSE Raised("ImportError")

-----------------------------------------------------------------------------
(* contingency.py *)

\* a missing value of an object (string) column; a float column's is NaN
NA == "<NA>"

\* mutant: df.dropna(subset=[group_col])
dropna_group_only(rows) ==
    SelectSeq(rows, LAMBDA r : r.group # NA)

\* df.dropna(subset=[group_col, outcome_col])
dropna(rows) ==
    SelectSeq(rows, LAMBDA r : r.group # NA /\ ~IsNaN(r.outcome))

\* _counts: (x[outcome_col] == v).sum(), (x[outcome_col] != v).sum()
_counts(x, outcome_positive_value) ==
    <<Len(SelectSeq(x, LAMBDA r : r.outcome = outcome_positive_value)),
      Len(SelectSeq(x, LAMBDA r : r.outcome # outcome_positive_value))>>

\* a cohort is its rows in order, each with the group and the outcome column
build_2x2(cohort, exposed_value, unexposed_value, outcome_positive_value) ==
    LET df    == dropna(cohort)
        exp   == SelectSeq(df, LAMBDA r : r.group = exposed_value)
        unexp == SelectSeq(df, LAMBDA r : r.group = unexposed_value)
        ab    == _counts(exp, outcome_positive_value)
        cd    == _counts(unexp, outcome_positive_value)
    IN Returned(Contingency2x2(ab[1], ab[2], cd[1], cd[2]))

-----------------------------------------------------------------------------
(* logistic.py *)

\* The cohort table: its columns, and the rows in index order.  outcome, group,
\* age and score are held in a numeric dtype (missing is NaN); county is an
\* object column of strings (missing is NA).
DfColumns == {"outcome", "group", "age", "score", "county"}

\* pd.api.types.is_numeric_dtype
NumericDtype(c) == c \in {"outcome", "group", "age", "score"}

\* what pd.to_numeric makes of a string; anything that is no number is coerced to NaN
ParseNumber(str) == CASE str = "7" -> Num(Fx(7)) [] OTHER -> NaN

\* pd.to_numeric(..., errors="coerce") on a cell of column c
to_numeric(c, v) == IF NumericDtype(c) THEN v ELSE ParseNumber(v)

\* Series.notna on a cell of column c
notna(c, v) == IF NumericDtype(c) THEN ~IsNaN(v) ELSE v # NA

\* str(x) of the floats that occur in the tables
FloatStr(f) ==
    CASE f.v = 0 -> "0.0"
      [] f.v = Fx(1) -> "1.0"
      [] f.v = Fx(5) -> "5.0"
      [] f.v = Fx(30) -> "30.0"

\* Series.astype("string") on a cell of column c
astype_string(c, v) ==
    IF NumericDtype(c) THEN (IF IsNaN(v) THEN NA ELSE FloatStr(v)) ELSE v

\* the strings that occur as category levels, in sort order
Collation == <<"0.0", "1.0", "30.0", "5.0", "A", "B", "C">>

Range(q) == {q[i] : i \in DOMAIN q}

\* mutant: a covariate forced both ways is taken as numeric, no error raised
_infer_covariate_types_force_numeric_wins(rows, covariates, force_categorical, force_numeric) ==
    LET non_null(c) == Cardinality({i \in DOMAIN rows : notna(c, rows[i][c])})
        ok(c) == Cardinality({i \in DOMAIN rows : ~IsNaN(to_numeric(c, rows[i][c]))})
        numeric(c) ==
            \/ c \in force_numeric
            \/ /\ c \notin force_categorical
               /\ \/ NumericDtype(c)
                  \/ non_null(c) > 0 /\ 10 * ok(c) >= 9 * non_null(c)
        categorical(c) == ~numeric(c)
    IN Returned(<<SelectSeq(covariates, numeric), SelectSeq(covariates, categorical)>>)

\* mutant: (ok / non_null) > 0.90
_infer_covariate_types_above_threshold(rows, covariates, force_categorical, force_numeric) ==
    LET non_null(c) == Cardinality({i \in DOMAIN rows : notna(c, rows[i][c])})
        ok(c) == Cardinality({i \in DOMAIN rows : ~IsNaN(to_numeric(c, rows[i][c]))})
        numeric(c) ==
            \/ c \in force_numeric
            \/ /\ c \notin force_categorical
               /\ \/ NumericDtype(c)
                  \/ non_null(c) > 0 /\ 10 * ok(c) > 9 * non_null(c)
        categorical(c) == ~numeric(c)
    IN IF \E i \in DOMAIN covariates :
             covariates[i] \in force_numeric /\ covariates[i] \in force_categorical
       THEN Raised("ValueError")
       ELSE Returned(<<SelectSeq(covariates, numeric), SelectSeq(covariates, categorical)>>)

\* ok / non_null >= 0.90 is decided on the integers: the quotient of two row
\* counts rounds to the float 0.9 exactly when it is 9/10
_infer_covariate_types(rows, covariates, force_categorical, force_numeric) ==
    LET non_null(c) == Cardinality({i \in DOMAIN rows : notna(c, rows[i][c])})
        ok(c) == Cardinality({i \in DOMAIN rows : ~IsNaN(to_numeric(c, rows[i][c]))})
        numeric(c) ==
            \/ c \in force_numeric
            \/ /\ c \notin force_categorical
               /\ \/ NumericDtype(c)
                  \/ non_null(c) > 0 /\ 10 * ok(c) >= 9 * non_null(c)
        categorical(c) == ~numeric(c)
    IN IF \E i \in DOMAIN covariates :
             covariates[i] \in force_numeric /\ covariates[i] \in force_categorical
       THEN Raised("ValueError")
       ELSE Returned(<<SelectSeq(covariates, numeric), SelectSeq(covariates, categorical)>>)

\* the indicator columns pd.get_dummies(drop_first=True, dummy_na=False) makes of
\* one string column: one per level but the first, the levels in sort order
\* mutant: pd.get_dummies(drop_first=False, dummy_na=False)
DummiesOf_keep_first(rows, c) ==
    LET present(l) == \E i \in DOMAIN rows : astype_string(c, rows[i][c]) = l
        levels == SelectSeq(Collation, present)
    IN [j \in 1..Len(levels) |->
          [name |-> c \o "_" \o levels[j], column |-> c, level |-> levels[j]]]

DummiesOf(rows, c) ==
    LET present(l) == \E i \in DOMAIN rows : astype_string(c, rows[i][c]) = l
        levels == SelectSeq(Collation, present)
    IN [j \in 1..(Len(levels) - 1) |->
          [name |-> c \o "_" \o levels[j + 1], column |-> c, level |-> levels[j + 1]]]

RECURSIVE get_dummies(_, _)
get_dummies(rows, cat_covs) ==
    IF cat_covs = <<>> THEN <<>>
    ELSE DummiesOf(rows, Head(cat_covs)) \o get_dummies(rows, Tail(cat_covs))

\* mutant: an indicator cell of a row whose value is missing is itself missing
indicator_cell_propagating_na(level, v) ==
    IF v = NA THEN NaN ELSE IF v = level THEN Num(Fx(1)) ELSE Num(0)

\* the cell of the indicator column of `level` in a row whose string value is v;
\* with dummy_na=False a missing value matches no level
indicator_cell(level, v) == IF v = level THEN Num(Fx(1)) ELSE Num(0)

\* mutant: the `any` policy looks at the outcome only
drop_mask_any_outcome_only(drop_missing, outcome_isna, x_isna) ==
    CASE drop_missing = "any" -> ~outcome_isna
      [] drop_missing = "outcome" -> ~outcome_isna
      [] drop_missing = "covariates" -> ~x_isna
      [] OTHER -> TRUE

\* the row mask of the drop policy; under "none" no mask is applied
drop_mask(drop_missing, outcome_isna, x_isna) ==
    CASE drop_missing = "any" -> ~(outcome_isna \/ x_isna)
      [] drop_missing = "outcome" -> ~outcome_isna
      [] drop_missing = "covariates" -> ~x_isna
      [] OTHER -> TRUE

\* mutant: sm.add_constant(X, prepend=False, has_constant="add")
add_constant_append(X) ==
    [columns |-> Append(X.columns, "const"),
     rows |-> [i \in DOMAIN X.rows |->
                 [index |-> X.rows[i].index,
                  cells |-> ("const" :> Num(Fx(1))) @@ X.rows[i].cells]]]

\* sm.add_constant(X, has_constant="add"), prepend=True being the default
add_constant(X) ==
    [columns |-> <<"const">> \o X.columns,
     rows |-> [i \in DOMAIN X.rows |->
                 [index |-> X.rows[i].index,
                  cells |-> ("const" :> Num(Fx(1))) @@ X.rows[i].cells]]]

build_design_matrix(df, outcome_col, group_indicator_col, covariates, drop_missing, add_intercept, force_categorical, force_numeric) ==
    IF outcome_col \notin df.columns THEN Raised("ValueError")
    ELSE IF group_indicator_col \notin df.columns THEN Raised("ValueError")
    ELSE IF \E i \in DOMAIN covariates : covariates[i] \notin df.columns
    THEN Raised("ValueError")
    ELSE
    LET work  == df.rows
        types == _infer_covariate_types(work, covariates, force_categorical, force_numeric)
    IN IF types.raised # "" THEN types
       ELSE
       LET numeric_covs == types.value[1]
           cat_covs     == types.value[2]
           dummies      == get_dummies(work, cat_covs)
           cell(i, n) ==
               IF n = group_indicator_col \/ n \in Range(numeric_covs)
               THEN to_numeric(n, work[i][n])
               ELSE LET dm == CHOOSE x \in Range(dummies) : x.name = n
                    IN indicator_cell(dm.level, astype_string(dm.column, work[i][dm.column]))
           parts == <<group_indicator_col>> \o numeric_covs
                        \o [j \in DOMAIN dummies |-> dummies[j].name]
           concat == [columns |-> parts,
                      rows |-> [i \in DOMAIN work |->
                                  [index |-> i,
                                   cells |-> [n \in Range(parts) |-> cell(i, n)]]]]
           X0 == IF add_intercept THEN add_constant(concat) ELSE concat
           before_n == Len(work)
           outcome(i) == to_numeric(outcome_col, work[i][outcome_col])
           x_isna(i) == \E n \in Range(X0.columns) : IsNaN(X0.rows[i].cells[n])
           mask(i) == drop_mask(drop_missing, IsNaN(outcome(i)), x_isna(i))
           keep(r) == mask(r.index)
           y == SelectSeq([i \in DOMAIN work |-> [index |-> i, value |-> outcome(i)]], keep)
           X == [columns |-> X0.columns, rows |-> SelectSeq(X0.rows, keep)]
       IN IF drop_missing \notin {"any", "outcome", "covariates", "none"}
          THEN Raised("ValueError")
          ELSE Returned([y |-> y,
                         X |-> X,
                         meta |-> [n_before |-> before_n,
                                   n_used |-> Len(y),
                                   n_dropped |-> before_n - Len(y),
                                   numeric_covariates |-> numeric_covs,
                                   categorical_covariates |-> cat_covs,
                                   terms |-> X.columns,
                                   add_intercept |-> add_intercept,
                                   drop_missing |-> drop_missing]])

-----------------------------------------------------------------------------
(* logistic.py: the fitter *)

\* The statistics library is the environment of fit_logit.  lib describes the
\* installed build and what its solver makes of the data:
\*   fit                   how model.fit(disp=False) ends: "ok" or the exception
\*   attrs                 the robust-covariance methods the results object has
\*   returns_none          such a method updates the results in place and returns None
\*   fit_accepts_cov_type  model.fit takes the keyword cov_type
\*   fit_regularized       how model.fit_regularized ends: "ok" or the exception
\*   coef                  the coefficient the solver reports for every term

\* the p-value and the half width of the confidence interval (on the
\* coefficient scale) the library reports under a covariance type
LibPValue(cov_type) == IF cov_type = "HC1" THEN Num(60) ELSE Num(40)
LibHalfWidth(cov_type) == IF cov_type = "HC1" THEN 400 ELSE 300

\* the results object of an unregularized fit under a covariance type
LogitResults(model, cov_type) ==
    [cov_type |-> cov_type,
     attrs |-> model.lib.attrs,
     index |-> model.X.columns,
     params |-> [t \in Range(model.X.columns) |-> Num(model.lib.coef)],
     pvalues |-> [t \in Range(model.X.columns) |-> LibPValue(cov_type)],
     conf_int |-> [t \in Range(model.X.columns) |->
                     [ci_low |-> Num(model.lib.coef - LibHalfWidth(cov_type)),
                      ci_high |-> Num(model.lib.coef + LibHalfWidth(cov_type))]]]

\* the results object of the L1-regularized fit: shrunken coefficients
L1Results(model) ==
    [index |-> model.X.columns,
     params |-> [t \in Range(model.X.columns) |-> Num(model.lib.coef - 100)]]

\* sm.Logit(y, X): refuses data with a missing value
Logit(y, X, lib) ==
    IF \/ \E k \in DOMAIN y : IsNaN(y[k].value)
       \/ \E k \in DOMAIN X.rows : \E n \in Range(X.columns) : IsNaN(X.rows[k].cells[n])
    THEN Raised("MissingDataError")
    ELSE Returned([y |-> y, X |-> X, lib |-> lib])

\* model.fit(disp=False)
model_fit(model) ==
    IF model.lib.fit = "ok" THEN Returned(LogitResults(model, "nonrobust"))
    ELSE Raised(model.lib.fit)

\* model.fit(disp=False, cov_type=cov_type)
model_fit_cov_type(model, cov_type) ==
    IF ~model.lib.fit_accepts_cov_type THEN Raised("TypeError")
    ELSE IF model.lib.fit = "ok" THEN Returned(LogitResults(model, cov_type))
    ELSE Raised(model.lib.fit)

\* model.fit_regularized(method="l1", alpha=1e-6, disp=False)
model_fit_regularized(model) ==
    IF model.lib.fit_regularized = "ok" THEN Returned(L1Results(model))
    ELSE Raised(model.lib.fit_regularized)

\* res.get_robustcov_results / res._get_robustcov_results: the value returned
\* (None or a results object) and the results object as the call leaves it
get_robustcov_results(results, model, cov_type) ==
    IF model.lib.returns_none
    THEN [out |-> None, res |-> LogitResults(model, cov_type)]
    ELSE [out |-> Some(LogitResults(model, cov_type)), res |-> results]

_apply_robust_covariance(results, model, cov_type) ==
    IF "get_robustcov_results" \in results.attrs
    THEN LET call == get_robustcov_results(results, model, cov_type)
         IN Returned(IF call.out # None THEN call.out[1] ELSE call.res)
    ELSE IF "_get_robustcov_results" \in results.attrs
    THEN LET call == get_robustcov_results(results, model, cov_type)
         IN Returned(IF call.out # None THEN call.out[1] ELSE call.res)
    ELSE LET out == model_fit_cov_type(model, cov_type)
         IN IF out.raised = "TypeError" THEN Returned(results) ELSE out

\* mutant: except Exception
fit_logit_catches_any(e) == e # ""

\* the exceptions the except clause of fit_logit catches
fit_logit_catches(e) == e = "PerfectSeparationError"

\* float(np.exp(v)) if pd.notna(v) else float("nan")
exp_or_nan(f) == IF IsNaN(f) THEN NaN ELSE Num(ExpFx(f.v))

\* the body of the try block: fit, robust covariance on request, then read
\* params, pvalues and conf_int
fit_logit_try(model, robust_se) ==
    LET fit == model_fit(model)
    IN IF fit.raised # "" THEN fit
       ELSE LET rob == IF robust_se
                       THEN _apply_robust_covariance(fit.value, model, "HC1")
                       ELSE fit
            IN IF rob.raised # "" THEN rob
               ELSE Returned([index |-> rob.value.index,
                              params |-> rob.value.params,
                              pvals |-> rob.value.pvalues,
                              conf |-> rob.value.conf_int])

\* the except clause: refit with L1 regularization, statistics set to NaN
fit_logit_except(model) ==
    LET fit == model_fit_regularized(model)
    IN IF fit.raised # "" THEN fit
       ELSE Returned([index |-> fit.value.index,
                      params |-> fit.value.params,
                      pvals |-> [t \in Range(fit.value.index) |-> NaN],
                      conf |-> [t \in Range(fit.value.index) |->
                                  [ci_low |-> NaN, ci_high |-> NaN]]])

\* the rows of the result: one per term of the fitted parameters
fit_logit_rows(f) ==
    [k \in DOMAIN f.index |->
        LET term == f.index[k]
        IN [term |-> term,
            coef |-> f.params[term],
            or |-> Num(ExpFx(f.params[term].v)),
            ci_low |-> exp_or_nan(f.conf[term].ci_low),
            ci_high |-> exp_or_nan(f.conf[term].ci_high),
            p_value |-> f.pvals[term]]]

\* fit_logit from the call of sm.Logit on: the try block, the except clause
\* for the exceptions it catches, then the rows
fit_logit_model(meta, model, robust_se) ==
    IF model.raised # "" THEN model
    ELSE LET try == fit_logit_try(model.value, robust_se)
             used_regularized == fit_logit_catches(try.raised)
             fitted == IF used_regularized THEN fit_logit_except(model.value) ELSE try
         IN IF fitted.raised # "" THEN fitted
            ELSE Returned([meta |-> meta,
                           used_regularized |-> used_regularized,
                           results |-> fit_logit_rows(fitted.value)])

\* fit_logit from the design matrix on; an error of build_design_matrix
\* propagates
fit_logit_built(built, robust_se, lib) ==
    IF built.raised # "" THEN built
    ELSE CHOOSE out \in {fit_logit_model(built.value.meta, model, robust_se) :
                            model \in {Logit(built.value.y, built.value.X, lib)}} : TRUE

\* the design matrix is built once and handed on
fit_logit(df, outcome_col, group_indicator_col, covariates, drop_missing, add_intercept, force_categorical, force_numeric, robust_se, lib) ==
    CHOOSE out \in
        {fit_logit_built(built, robust_se, lib) :
            built \in {build_design_matrix(df, outcome_col, group_indicator_col,
                                           covariates, drop_missing, add_intercept,
                                           force_categorical, force_numeric)}} : TRUE

-----------------------------------------------------------------------------
(* cli.py *)

\* the keyword parameters in the signature of compute_bias_metrics
compute_bias_metrics_keywords == {"alpha", "continuity_correction"}

\* _contingency_to_dict: the cells of the table under the keys a, b, c, d
_contingency_to_dict(t) == [a |-> t.a, b |-> t.b, c |-> t.c, d |-> t.d]

\* main in 2x2 mode, from the cohort table on: restrict the cohort to the two
\* groups, refuse an empty cohort or an absent group, build the table, call
\* the aggregator with the keywords alpha, continuity_correction and chi2_yates
\* (a keyword the callee does not declare is a TypeError), assemble the bundle
main_2x2(cohort, exposed, unexposed, alpha, continuity_correction, chi2_yates) ==
    LET isin(r) == r.group \in {exposed, unexposed}
        restricted == SelectSeq(cohort, isin)
        groups_present == {restricted[i].group : i \in DOMAIN restricted}
        missing == {exposed, unexposed} \ groups_present
        passed == {"alpha", "continuity_correction", "chi2_yates"}
    IN IF restricted = <<>> THEN Raised("ValueError")
       ELSE IF missing # {} THEN Raised("ValueError")
       ELSE
       LET t == build_2x2(restricted, exposed, unexposed, Num(Fx(1)))
           t_dict == _contingency_to_dict(t.value)
           metrics == IF passed \ compute_bias_metrics_keywords # {}
                      THEN Raised("TypeError")
                      ELSE compute_bias_metrics(t.value, alpha, continuity_correction)
       IN IF metrics.raised # "" THEN metrics
          ELSE Returned([inputs |-> [mode |-> "2x2", exposed |-> exposed,
                                     unexposed |-> unexposed,
                                     n_used_rows |-> Len(restricted),
                                     continuity_correction |-> continuity_correction,
                                     chi2_yates |-> chi2_yates],
                         table |-> t_dict,
                         metrics |-> metrics.value])

-----------------------------------------------------------------------------
(* Calls *)

Init ==
    /\ op = "idle"
    /\ args = <<>>
    /\ res = <<>>

\* the caller takes the outcome; every call is independent of the last
Return ==
    /\ op # "idle"
    /\ op' = "idle"
    /\ args' = <<>>
    /\ res' = <<>>

Tables == [a : 0..MaxCount, b : 0..MaxCount, c : 0..MaxCount, d : 0..MaxCount]

CallApplyCc ==
    /\ op = "idle"
    /\ \E t \in Tables, cc \in CcValues :
          /\ op' = "_apply_cc"
          /\ args' = [t |-> t, continuity_correction |-> cc]
          /\ res' = Returned(_apply_cc(t, cc))

CallOddsRatio ==
    /\ op = "idle"
    /\ \E t \in Tables, alpha \in AlphaLevels, cc \in CcValues :
          /\ op' = "odds_ratio_and_ci"
          /\ args' = [t |-> t, alpha |-> alpha, continuity_correction |-> cc]
          /\ res' = odds_ratio_and_ci(t, alpha, cc)

CallRelativeRisk ==
    /\ op = "idle"
    /\ \E t \in Tables, alpha \in AlphaLevels, cc \in CcValues :
          /\ op' = "relative_risk_and_ci"
          /\ args' = [t |-> t, alpha |-> alpha, continuity_correction |-> cc]
          /\ res' = relative_risk_and_ci(t, alpha, cc)

CallRateRatio ==
    /\ op = "idle"
    /\ \E e1 \in -1..MaxRate, t1 \in -1..MaxRate, e0 \in -1..MaxRate, t0 \in -1..MaxRate,
          alpha \in AlphaLevels, cc \in CcValues :
          /\ op' = "rate_ratio_and_ci"
          /\ args' = [events_exposed |-> e1, time_exposed |-> t1,
                      events_unexposed |-> e0, time_unexposed |-> t0,
                      alpha |-> alpha, continuity_correction |-> cc]
          /\ res' = rate_ratio_and_ci(e1, t1, e0, t0, alpha, cc)

CallComputeBiasMetrics ==
    /\ op = "idle"
    /\ \E t \in Tables, alpha \in AlphaLevels, cc \in CcValues :
          /\ op' = "compute_bias_metrics"
          /\ args' = [t |-> t, alpha |-> alpha, continuity_correction |-> cc]
          /\ res' = compute_bias_metrics(t, alpha, cc)

\* tests/test_metrics.py: from bias_analysis.metrics import odds_ratio_and_ci, chi_square_test
ImportTestMetrics ==
    /\ op = "idle"
    /\ \E yates \in BOOLEAN :
          LET first  == ImportFromMetrics("odds_ratio_and_ci")
              second == ImportFromMetrics("chi_square_test")
          IN /\ op' = "import chi_square_test"
             /\ args' = [yates |-> yates]
             /\ res' = IF first.raised # "" THEN first
                       ELSE IF second.raised # "" THEN second
                       ELSE Returned({first.value, second.value})

NextMetrics ==
    \/ CallApplyCc
    \/ CallOddsRatio
    \/ CallRelativeRisk
    \/ CallRateRatio
    \/ CallComputeBiasMetrics
    \/ ImportTestMetrics
    \/ Return

SpecMetrics == Init /\ [][NextMetrics]_vars

\* group labels of a cohort; outcome 1.0, 0.0 or missing
GroupValues == {"A", "B", "C"}
CohortRows == [group : GroupValues \cup {NA}, outcome : {Num(Fx(1)), Num(0), NaN}]
SeqsUpTo(S, n) == UNION {[1..k -> S] : k \in 0..n}

CallBuild2x2 ==
    /\ op = "idle"
    /\ \E cohort \in SeqsUpTo(CohortRows, MaxRows), unexposed \in {"A", "B"} :
          /\ op' = "build_2x2"
          /\ args' = [cohort |-> cohort, exposed_value |-> "A",
                      unexposed_value |-> unexposed,
                      outcome_positive_value |-> Num(Fx(1))]
          /\ res' = build_2x2(cohort, "A", unexposed, Num(Fx(1)))

NextContingency ==
    \/ CallBuild2x2
    \/ Return

SpecContingency == Init /\ [][NextContingency]_vars

\* rows of the table handed to build_design_matrix: at most one value of a
\* row is missing; a row with no age is in county A, one with no outcome in B,
\* one with no group in C
DfRows ==
    {r \in [outcome : {Num(Fx(1)), NaN}, group : {Num(Fx(1)), NaN},
            age : {Num(Fx(30)), NaN}, score : {Num(Fx(5))},
            county : {"A", "B", "C", NA}] :
        /\ IsNaN(r.outcome) => ~IsNaN(r.age) /\ ~IsNaN(r.group) /\ r.county = "B"
        /\ IsNaN(r.age) => ~IsNaN(r.group) /\ r.county = "A"
        /\ IsNaN(r.group) => r.county = "C"}

CovariateLists ==
    {<<>>, <<"county">>, <<"age", "county", "score">>, <<"county", "score", "age">>}

\* the arguments as the command line passes them
DefaultParams ==
    [outcome_col |-> "outcome", group_indicator_col |-> "group",
     covariates |-> <<"age", "county">>, drop_missing |-> "any",
     add_intercept |-> TRUE, force_categorical |-> {}, force_numeric |-> {}]

\* every covariate list with and without intercept; and the default call with
\* one argument changed: the drop policy, a column that is not in the table, a
\* token that is no drop policy, forced types
DesignParams ==
    {[DefaultParams EXCEPT !.covariates = cv, !.add_intercept = ai] :
        cv \in CovariateLists, ai \in BOOLEAN}
    \cup {[DefaultParams EXCEPT !.drop_missing = dm] :
            dm \in {"outcome", "covariates", "none"}}
    \cup {[DefaultParams EXCEPT !.outcome_col = "y"],
          [DefaultParams EXCEPT !.group_indicator_col = "g"],
          [DefaultParams EXCEPT !.covariates = <<"age", "zip">>],
          [DefaultParams EXCEPT !.drop_missing = "all"],
          [DefaultParams EXCEPT !.force_categorical = {"age"}, !.force_numeric = {"age"}],
          [DefaultParams EXCEPT !.force_categorical = {"zip"}, !.force_numeric = {"zip"}],
          [DefaultParams EXCEPT !.force_categorical = {"age"}],
          [DefaultParams EXCEPT !.force_numeric = {"county"}]}

CallBuildDesignMatrix ==
    /\ op = "idle"
    /\ \E n \in 1..MaxDfRows :
       \E rows \in [1..n -> DfRows], p \in DesignParams :
          /\ op' = "build_design_matrix"
          /\ args' = [df |-> [columns |-> DfColumns, rows |-> rows]] @@ p
          /\ res' = build_design_matrix([columns |-> DfColumns, rows |-> rows],
                                        p.outcome_col, p.group_indicator_col,
                                        p.covariates, p.drop_missing, p.add_intercept,
                                        p.force_categorical, p.force_numeric)

NextLogistic ==
    \/ CallBuildDesignMatrix
    \/ Return

SpecLogistic == Init /\ [][NextLogistic]_vars

\* a table for type inference: age is a numeric column, code an object column
\* holding `coercible` strings that read as a number, `text` strings that do
\* not, and `missing` missing values
InferenceTable(coercible, text, missing) ==
    [i \in 1..(coercible + text + missing) |->
        [age |-> Num(Fx(30)),
         code |-> IF i <= coercible THEN "7"
                  ELSE IF i <= coercible + text THEN "x" ELSE NA]]

InferenceCovariates == {<<>>, <<"code">>, <<"age", "code">>, <<"code", "age">>}

CallInferCovariateTypes ==
    /\ op = "idle"
    /\ \E coercible \in 0..MaxCoercible, text \in 0..MaxText, missing \in 0..MaxMissing :
       \E covariates \in InferenceCovariates :
       \E force_categorical \in SUBSET {"age", "code"}, force_numeric \in SUBSET {"age", "code"} :
          /\ op' = "_infer_covariate_types"
          /\ args' = [rows |-> InferenceTable(coercible, text, missing),
                      covariates |-> covariates,
                      force_categorical |-> force_categorical,
                      force_numeric |-> force_numeric]
          /\ res' = _infer_covariate_types(InferenceTable(coercible, text, missing),
                                           covariates, force_categorical, force_numeric)

NextInference ==
    \/ CallInferCovariateTypes
    \/ Return

SpecInference == Init /\ [][NextInference]_vars

\* the complete rows every table handed to fit_logit starts with: both
\* outcomes in both groups, neither the group nor the age separating them
FitBase ==
    <<[outcome |-> Num(Fx(1)), group |-> Num(Fx(1)), age |-> Num(Fx(30)),
       score |-> Num(Fx(5)), county |-> "A"],
      [outcome |-> Num(0), group |-> Num(Fx(1)), age |-> Num(Fx(5)),
       score |-> Num(Fx(5)), county |-> "B"],
      [outcome |-> Num(Fx(1)), group |-> Num(0), age |-> Num(Fx(5)),
       score |-> Num(Fx(5)), county |-> "B"],
      [outcome |-> Num(0), group |-> Num(0), age |-> Num(Fx(30)),
       score |-> Num(Fx(5)), county |-> "A"]>>

\* the rows that may follow them, a value missing or none
FitRows ==
    {r \in DfRows : r.county \in {"A", "B"}}

\* the calls of fit_logit: as the command line makes it, without intercept,
\* under the policy `none`, and with a token that is no drop policy
FitParams ==
    {[DefaultParams EXCEPT !.covariates = <<"age">>],
     [DefaultParams EXCEPT !.covariates = <<"county">>, !.add_intercept = FALSE],
     [DefaultParams EXCEPT !.covariates = <<"age">>, !.drop_missing = "none"],
     [DefaultParams EXCEPT !.covariates = <<"age">>, !.drop_missing = "all"]}

\* the builds of the library and the ways its solver can end
Libraries ==
    [fit : {"ok", "PerfectSeparationError", "LinAlgError"},
     attrs : {{}, {"get_robustcov_results"}, {"_get_robustcov_results"}},
     returns_none : BOOLEAN,
     fit_accepts_cov_type : BOOLEAN,
     fit_regularized : {"ok", "LinAlgError"},
     coef : {0 - 500, 1000}]

CallFitLogit ==
    /\ op = "idle"
    /\ \E n \in 0..MaxFitRows :
       \E more \in [1..n -> FitRows], p \in FitParams :
       \E robust_se \in BOOLEAN, lib \in Libraries :
          /\ op' = "fit_logit"
          /\ args' = [df |-> [columns |-> DfColumns, rows |-> FitBase \o more],
                      robust_se |-> robust_se, lib |-> lib] @@ p
          /\ res' = fit_logit([columns |-> DfColumns, rows |-> FitBase \o more],
                              p.outcome_col, p.group_indicator_col, p.covariates,
                              p.drop_missing, p.add_intercept, p.force_categorical,
                              p.force_numeric, robust_se, lib)

NextFit ==
    \/ CallFitLogit
    \/ Return

SpecFit == Init /\ [][NextFit]_vars

\* the command line in 2x2 mode with the default alpha, with and without
\* --continuity-correction 0 and --chi2-yates
CallMain2x2 ==
    /\ op = "idle"
    /\ \E cohort \in SeqsUpTo(CohortRows, MaxRows) :
       \E continuity_correction \in {None, Some(0)}, chi2_yates \in BOOLEAN :
          /\ op' = "main"
          /\ args' = [cohort |-> cohort, mode |-> "2x2", exposed |-> "A",
                      unexposed |-> "B", alpha |-> 50,
                      continuity_correction |-> continuity_correction,
                      chi2_yates |-> chi2_yates]
          /\ res' = main_2x2(cohort, "A", "B", 50, continuity_correction, chi2_yates)

NextCli ==
    \/ CallMain2x2
    \/ Return

SpecCli == Init /\ [][NextCli]_vars

Next ==
    \/ NextFit
    \/ NextCli
    \/ NextInference
    \/ NextMetrics
    \/ NextContingency
    \/ NextLogistic

Spec == Init /\ [][Next]_vars

-----------------------------------------------------------------------------
(* Properties of the ratio estimators *)

HasZero(t) == t.a = 0 \/ t.b = 0 \/ t.c = 0 \/ t.d = 0

\* the counts the estimators are specified to work on, in fixed point
Adjusted(t, cc) ==
    LET k == IF HasZero(t) /\ cc # None THEN cc[1] ELSE 0
    IN [a |-> Fx(t.a) + k, b |-> Fx(t.b) + k, c |-> Fx(t.c) + k, d |-> Fx(t.d) + k]

OddsRatioAllNaN(r) ==
    /\ r.raised = ""
    /\ IsNaN(r.value.odds_ratio)
    /\ IsNaN(r.value.odds_ratio_ci_low)
    /\ IsNaN(r.value.odds_ratio_ci_high)

RelativeRiskAllNaN(r) ==
    /\ r.raised = ""
    /\ IsNaN(r.value.relative_risk)
    /\ IsNaN(r.value.relative_risk_ci_low)
    /\ IsNaN(r.value.relative_risk_ci_high)

Provenance(r) ==
    /\ {"alpha", "continuity_correction"} \subseteq DOMAIN r.value
    /\ r.value.alpha = args.alpha
    /\ r.value.continuity_correction = args.continuity_correction

\* C1: with no continuity correction, odds_ratio_and_ci on a table with a zero
\* cell returns NaN for the odds ratio and for both CI bounds.
C1_ZeroCellWithoutCorrectionIsNaN ==
    (op = "odds_ratio_and_ci" /\ args.continuity_correction = None /\ HasZero(args.t))
        => OddsRatioAllNaN(res)

C1_Witness ==
    /\ op = "odds_ratio_and_ci"
    /\ args.continuity_correction = None
    /\ args.t.a = 0 /\ args.t.b > 0 /\ args.t.c > 0 /\ args.t.d > 0
    /\ OddsRatioAllNaN(res)

\* C2: on non-negative counts (non-negative events and positive person-time),
\* with the correction absent or any non-negative scalar, the three estimators
\* return a mapping and never raise; an undefined estimate comes with both CI
\* bounds NaN, and the mapping holds alpha and the supplied correction.
C2_UndefinedResultsAreValues ==
    /\ op = "odds_ratio_and_ci" =>
          /\ res.raised = ""
          /\ Provenance(res)
          /\ IsNaN(res.value.odds_ratio) =>
                IsNaN(res.value.odds_ratio_ci_low) /\ IsNaN(res.value.odds_ratio_ci_high)
    /\ op = "relative_risk_and_ci" =>
          /\ res.raised = ""
          /\ Provenance(res)
          /\ IsNaN(res.value.relative_risk) =>
                IsNaN(res.value.relative_risk_ci_low) /\ IsNaN(res.value.relative_risk_ci_high)
    /\ (/\ op = "rate_ratio_and_ci"
        /\ args.time_exposed > 0 /\ args.time_unexposed > 0
        /\ args.events_exposed >= 0 /\ args.events_unexposed >= 0) =>
          /\ res.raised = ""
          /\ Provenance(res)
          /\ IsNaN(res.value.rate_ratio) =>
                IsNaN(res.value.rate_ratio_ci_low) /\ IsNaN(res.value.rate_ratio_ci_high)

\* the zero-cell table of the tests' shape with a correction of 0.0
C2_Witness ==
    /\ op = "odds_ratio_and_ci"
    /\ args.continuity_correction = Some(0)
    /\ args.t.a = 0 /\ args.t.b > 0 /\ args.t.c > 0 /\ args.t.d > 0
    /\ res.raised = "ZeroDivisionError"

Estimates(r, keys) == [k \in keys |-> r.value[k]]

OddsRatioKeys == {"odds_ratio", "odds_ratio_ci_low", "odds_ratio_ci_high"}
RelativeRiskKeys == {"relative_risk", "relative_risk_ci_low", "relative_risk_ci_high"}
RateRatioKeys == {"rate_ratio", "rate_ratio_ci_low", "rate_ratio_ci_high"}

\* C3: the correction is added (to all four counts alike) only when it is
\* supplied and a count is zero; on a table with no zero cell the counts are the
\* raw ones, and the odds ratio and the relative risk with their CI bounds are the
\* same with and without a supplied correction.
C3_CorrectionOnlyOnZeroCell ==
    /\ op = "_apply_cc" =>
          LET t  == args.t
              cc == args.continuity_correction
          IN /\ (HasZero(t) /\ cc # None) =>
                    res.value = <<Num(Fx(t.a) + cc[1]), Num(Fx(t.b) + cc[1]),
                                  Num(Fx(t.c) + cc[1]), Num(Fx(t.d) + cc[1])>>
             /\ (HasZero(t) /\ cc = None) => \A i \in 1..4 : IsNaN(res.value[i])
             /\ ~HasZero(t) =>
                    res.value = <<Num(Fx(t.a)), Num(Fx(t.b)), Num(Fx(t.c)), Num(Fx(t.d))>>
    /\ (op = "odds_ratio_and_ci" /\ ~HasZero(args.t)) =>
          /\ res.raised = ""
          /\ Estimates(res, OddsRatioKeys)
               = Estimates(odds_ratio_and_ci(args.t, args.alpha, None), OddsRatioKeys)
    /\ (op = "relative_risk_and_ci" /\ ~HasZero(args.t)) =>
          /\ res.raised = ""
          /\ Estimates(res, RelativeRiskKeys)
               = Estimates(relative_risk_and_ci(args.t, args.alpha, None), RelativeRiskKeys)

C3_Witness ==
    /\ op = "odds_ratio_and_ci"
    /\ ~HasZero(args.t)
    /\ args.continuity_correction = Some(Scale)
    /\ res.raised = ""
    /\ res.value.odds_ratio = Num(DivFx(Fx(args.t.a * args.t.d), Fx(args.t.b * args.t.c)))

C5_RateRatioInputError ==
    op = "rate_ratio_and_ci" =>
       (res.raised = "ValueError"
          <=> \/ args.time_exposed <= 0 \/ args.time_unexposed <= 0
              \/ args.events_exposed < 0 \/ args.events_unexposed < 0)

\* zero events and no correction (the NaN case) with a person-time of zero
C5_Witness ==
    /\ op = "rate_ratio_and_ci"
    /\ args.events_exposed = 0 /\ args.events_unexposed > 0
    /\ args.time_exposed = 0 /\ args.time_unexposed > 0
    /\ args.continuity_correction = None
    /\ res.raised = "ValueError"

\* C6: relative_risk_and_ci returns NaN (estimate and both bounds) with no
\* correction and any zero cell; after adjustment it returns NaN when a group
\* total is zero or the unexposed risk is <= 0; otherwise relative_risk is
\* (a/(a+b)) / (c/(c+d)) on the adjusted counts.
C6_RelativeRiskPolicy ==
    op = "relative_risk_and_ci" =>
       LET t  == args.t
           cc == args.continuity_correction
           q  == Adjusted(t, cc)
       IN IF cc = None /\ HasZero(t) THEN RelativeRiskAllNaN(res)
          ELSE IF q.a + q.b = 0 \/ q.c + q.d = 0 THEN RelativeRiskAllNaN(res)
          ELSE IF DivFx(q.c, q.c + q.d) <= 0 THEN RelativeRiskAllNaN(res)
          ELSE /\ res.raised = ""
               /\ res.value.relative_risk
                    = Num(DivFx(DivFx(q.a, q.a + q.b), DivFx(q.c, q.c + q.d)))

C6_Witness ==
    /\ op = "relative_risk_and_ci"
    /\ args.continuity_correction = Some(0)
    /\ args.t.a = 0 /\ args.t.b > 0 /\ args.t.c > 0 /\ args.t.d > 0
    /\ res.raised = "ZeroDivisionError"

\* C7: the metrics module provides chi_square_test, so the import that opens
\* tests/test_metrics.py binds it (and the chi-square tests can run).
C7_ChiSquareTestProvided ==
    op = "import chi_square_test" =>
       res.raised = "" /\ "chi_square_test" \in res.value

C7_Witness ==
    op = "import chi_square_test" /\ res.raised = "ImportError"

\* C9: compute_bias_metrics returns a bundle whose table is the input counts,
\* whose odds-ratio and relative-risk entries are those odds_ratio_and_ci and
\* relative_risk_and_ci return for the same arguments, and which holds no
\* rate-ratio entry.
C9_AggregatorBundle ==
    op = "compute_bias_metrics" =>
       LET o == odds_ratio_and_ci(args.t, args.alpha, args.continuity_correction)
           r == relative_risk_and_ci(args.t, args.alpha, args.continuity_correction)
       IN /\ res.raised = ""
          /\ res.value.table = args.t
          /\ o.raised = "" /\ Estimates(res, OddsRatioKeys) = Estimates(o, OddsRatioKeys)
          /\ r.raised = "" /\ Estimates(res, RelativeRiskKeys) = Estimates(r, RelativeRiskKeys)
          /\ DOMAIN res.value \cap RateRatioKeys = {}

C9_Witness ==
    /\ op = "compute_bias_metrics"
    /\ args.continuity_correction = Some(0)
    /\ args.t.a = 0 /\ args.t.b > 0 /\ args.t.c > 0 /\ args.t.d > 0
    /\ res.raised = "ZeroDivisionError"

-----------------------------------------------------------------------------
(* Properties of the contingency table *)

\* the rows of cohort with group g, both values present, and the outcome
\* equal (event) or not equal (not event) to the positive value
CellRows(cohort, g, positive, event) ==
    {i \in DOMAIN cohort :
        /\ cohort[i].group # NA
        /\ ~IsNaN(cohort[i].outcome)
        /\ cohort[i].group = g
        /\ (cohort[i].outcome = positive) = event}

\* C8: build_2x2 counts in a and b the exposed rows (group and outcome present)
\* with and without the event, in c and d the unexposed ones; no other row is
\* counted, an absent category gives a zero count and no error; so all counts
\* are >= 0 and, with distinct labels, their sum is at most the row count.
C8_Build2x2Counts ==
    op = "build_2x2" =>
       LET rows == args.cohort
           pos  == args.outcome_positive_value
       IN /\ res.raised = ""
          /\ res.value.a = Cardinality(CellRows(rows, args.exposed_value, pos, TRUE))
          /\ res.value.b = Cardinality(CellRows(rows, args.exposed_value, pos, FALSE))
          /\ res.value.c = Cardinality(CellRows(rows, args.unexposed_value, pos, TRUE))
          /\ res.value.d = Cardinality(CellRows(rows, args.unexposed_value, pos, FALSE))
          /\ res.value.a >= 0 /\ res.value.b >= 0 /\ res.value.c >= 0 /\ res.value.d >= 0
          /\ args.exposed_value # args.unexposed_value =>
                res.value.a + res.value.b + res.value.c + res.value.d <= Len(rows)

\* an exposed event, a row with a missing outcome, a row of a third group and
\* no unexposed row at all
C8_Witness ==
    /\ op = "build_2x2"
    /\ args.exposed_value # args.unexposed_value
    /\ \E i \in DOMAIN args.cohort :
          args.cohort[i].group = "A" /\ IsNaN(args.cohort[i].outcome)
    /\ \E i \in DOMAIN args.cohort : args.cohort[i].group = "C"
    /\ \A i \in DOMAIN args.cohort : args.cohort[i].group # args.unexposed_value
    /\ res.raised = ""
    /\ res.value = Contingency2x2(1, 0, 0, 0)

-----------------------------------------------------------------------------
(* Properties of the design matrix *)

\* names an indicator column of one of the covariates cats can have
OneHotNames(cats) == {c \o "_" \o l : c \in Range(cats), l \in Range(Collation)}

\* body is laid out as: the group indicator, the numeric covariates in the
\* order listed, then indicator columns only
DesignBodyLayout(body) ==
    LET in_numeric(c) == c \in Range(res.value.meta.numeric_covariates)
        numeric == SelectSeq(args.covariates, in_numeric)
        k == Len(numeric)
    IN /\ Len(body) >= k + 1
       /\ body[1] = args.group_indicator_col
       /\ SubSeq(body, 2, k + 1) = numeric
       /\ res.value.meta.numeric_covariates = numeric
       /\ \A j \in (k + 2)..Len(body) :
             body[j] \in OneHotNames(res.value.meta.categorical_covariates)

\* C10 as stated: the columns of X (and meta["terms"]) are the group indicator,
\* the numeric covariates in the order listed, the one-hot columns and, when
\* add_intercept is true, the constant column last; without add_intercept
\* there is no constant column.
C10_InterceptLast ==
    (op = "build_design_matrix" /\ res.raised = "") =>
       LET terms == res.value.meta.terms
       IN /\ res.value.X.columns = terms
          /\ IF args.add_intercept
             THEN /\ terms[Len(terms)] = "const"
                  /\ DesignBodyLayout(SubSeq(terms, 1, Len(terms) - 1))
             ELSE /\ "const" \notin Range(terms)
                  /\ DesignBodyLayout(terms)

\* C10 amended: when add_intercept is true the constant column is the first
\* column, followed by the group indicator, the numeric covariates in the order
\* listed and the one-hot columns; without add_intercept there is no constant
\* column and the group indicator is first.
C10_InterceptFirst ==
    (op = "build_design_matrix" /\ res.raised = "") =>
       LET terms == res.value.meta.terms
       IN /\ res.value.X.columns = terms
          /\ IF args.add_intercept
             THEN /\ terms[1] = "const"
                  /\ DesignBodyLayout(Tail(terms))
             ELSE /\ "const" \notin Range(terms)
                  /\ DesignBodyLayout(terms)

C10_Witness ==
    /\ op = "build_design_matrix"
    /\ args.add_intercept
    /\ args.covariates = <<"county", "score", "age">>
    /\ res.raised = ""
    /\ res.value.meta.terms = <<"const", "group", "score", "age", "county_B">>

-----------------------------------------------------------------------------
(* Properties of the one-hot encoding *)

\* the distinct non-missing levels of covariate c in the table handed in
Levels(c) ==
    {astype_string(c, args.df.rows[i][c]) : i \in DOMAIN args.df.rows} \ {NA}

\* the columns of the feature matrix that are indicator columns of c,
\* a column for the missing value included
IndicatorColumns(c) ==
    {t \in Range(res.value.meta.terms) :
        \E l \in Range(Collation) \cup {NA, "nan"} : t = c \o "_" \o l}

\* the level of c in the first row, in row order, where c is not missing
FirstObserved(c) ==
    LET rows == args.df.rows
        i == CHOOSE k \in DOMAIN rows :
                /\ astype_string(c, rows[k][c]) # NA
                /\ \A j \in 1..(k - 1) : astype_string(c, rows[j][c]) = NA
    IN astype_string(c, rows[i][c])

\* the level that sorts before every other level of L
SortedFirst(L) ==
    LET pos(l) == CHOOSE j \in DOMAIN Collation : Collation[j] = l
    IN CHOOSE l \in L : \A m \in L : pos(l) <= pos(m)

\* C11 as stated: a categorical covariate with k distinct non-missing levels
\* gets exactly k-1 indicator columns, one for each level but the first level
\* observed in row order, and none for the missing value.
C11_ReferenceIsFirstObserved ==
    (op = "build_design_matrix" /\ res.raised = "") =>
       \A c \in Range(res.value.meta.categorical_covariates) :
          Levels(c) # {} =>
             /\ Cardinality(IndicatorColumns(c)) = Cardinality(Levels(c)) - 1
             /\ IndicatorColumns(c) =
                   {c \o "_" \o l : l \in Levels(c) \ {FirstObserved(c)}}

\* C11 amended: a categorical covariate with k >= 1 distinct non-missing levels
\* gets exactly k-1 indicator columns, one for each level but the level that
\* sorts first, and none for the missing value; a covariate with no
\* non-missing level gets no indicator column.
C11_ReferenceIsSortedFirst ==
    (op = "build_design_matrix" /\ res.raised = "") =>
       \A c \in Range(res.value.meta.categorical_covariates) :
          IF Levels(c) = {} THEN IndicatorColumns(c) = {}
          ELSE /\ Cardinality(IndicatorColumns(c)) = Cardinality(Levels(c)) - 1
               /\ IndicatorColumns(c) =
                     {c \o "_" \o l : l \in Levels(c) \ {SortedFirst(Levels(c))}}

\* three levels, the first one observed is not the one that sorts first, and
\* one row has no level
C11_Witness ==
    /\ op = "build_design_matrix"
    /\ res.raised = ""
    /\ Len(args.df.rows) = 3
    /\ args.df.rows[1].county = "C"
    /\ args.df.rows[2].county = NA
    /\ args.df.rows[3].county = "A"
    /\ args.covariates = <<"county">>
    /\ res.value.meta.categorical_covariates = <<"county">>
    /\ IndicatorColumns("county") = {"county_C"}

-----------------------------------------------------------------------------
(* Properties of the drop policy *)

\* row i of the table handed in has no outcome
OutcomeMissing(i) ==
    IsNaN(to_numeric(args.outcome_col, args.df.rows[i][args.outcome_col]))

\* row i of the table handed in has a missing cell in its feature row: the
\* group indicator or a numeric covariate that is no number
FeatureMissing(i) ==
    \/ IsNaN(to_numeric(args.group_indicator_col,
                        args.df.rows[i][args.group_indicator_col]))
    \/ \E c \in Range(res.value.meta.numeric_covariates) :
          IsNaN(to_numeric(c, args.df.rows[i][c]))

\* the rows the policy named by args.drop_missing keeps
KeptRows ==
    {i \in DOMAIN args.df.rows :
        CASE args.drop_missing = "any" -> ~OutcomeMissing(i) /\ ~FeatureMissing(i)
          [] args.drop_missing = "outcome" -> ~OutcomeMissing(i)
          [] args.drop_missing = "covariates" -> ~FeatureMissing(i)
          [] args.drop_missing = "none" -> TRUE}

\* C12: the drop policy keeps exactly the rows it names, in row order, in the
\* outcome series and in the feature matrix alike; n_used is the row count of
\* both, n_used <= n_before and n_dropped = n_before - n_used; under `any`
\* neither the outcome series nor the feature matrix holds a missing value.
C12_DropPolicy ==
    (op = "build_design_matrix" /\ res.raised = "") =>
       LET y == res.value.y
           X == res.value.X
           meta == res.value.meta
       IN /\ {y[k].index : k \in DOMAIN y} = KeptRows
          /\ \A k \in DOMAIN y : \A j \in DOMAIN y : k < j => y[k].index < y[j].index
          /\ \A k \in DOMAIN y :
                y[k].value = to_numeric(args.outcome_col,
                                        args.df.rows[y[k].index][args.outcome_col])
          /\ Len(X.rows) = Len(y)
          /\ \A k \in DOMAIN y : X.rows[k].index = y[k].index
          /\ meta.n_before = Len(args.df.rows)
          /\ meta.n_used = Len(y)
          /\ meta.n_used <= meta.n_before
          /\ meta.n_dropped = meta.n_before - meta.n_used
          /\ args.drop_missing = "any" =>
                /\ \A k \in DOMAIN y : ~IsNaN(y[k].value)
                /\ \A k \in DOMAIN X.rows : \A n \in Range(X.columns) :
                      ~IsNaN(X.rows[k].cells[n])

\* under `any`, one row without outcome and one without age are dropped and
\* the third is kept
C12_Witness ==
    /\ op = "build_design_matrix"
    /\ res.raised = ""
    /\ args.drop_missing = "any"
    /\ args.covariates = <<"age", "county">>
    /\ Len(args.df.rows) = 3
    /\ IsNaN(args.df.rows[1].outcome)
    /\ IsNaN(args.df.rows[2].age)
    /\ res.value.meta.n_dropped = 2
    /\ Len(res.value.X.rows) = 1
    /\ res.value.X.rows[1].index = 3

-----------------------------------------------------------------------------
(* Properties of the input checks and of type inference *)

\* one of the inputs build_design_matrix must refuse: a column that is not in
\* the table, a token that is no drop policy, a listed covariate forced both ways
BadDesignInput ==
    \/ args.outcome_col \notin args.df.columns
    \/ args.group_indicator_col \notin args.df.columns
    \/ \E i \in DOMAIN args.covariates : args.covariates[i] \notin args.df.columns
    \/ args.drop_missing \notin {"any", "outcome", "covariates", "none"}
    \/ \E i \in DOMAIN args.covariates :
          args.covariates[i] \in args.force_numeric \cap args.force_categorical

\* C15: build_design_matrix raises an input error, and returns no matrix, when
\* the outcome column, the group-indicator column or a listed covariate is not
\* in the table, when the drop policy is no known token, or when a listed
\* covariate is forced both numeric and categorical; otherwise it raises none.
C15_InputErrors ==
    op = "build_design_matrix" =>
       /\ BadDesignInput => res = Raised("ValueError")
       /\ ~BadDesignInput => res.raised = "" /\ "value" \in DOMAIN res

\* the listed covariate age forced both ways, everything else in order
C15_Witness ==
    /\ op = "build_design_matrix"
    /\ args.covariates = <<"age", "county">>
    /\ "age" \in args.force_numeric \cap args.force_categorical
    /\ args.outcome_col \in args.df.columns
    /\ args.drop_missing = "any"
    /\ res = Raised("ValueError")

\* how many of the values of column c are present, and how many read as a number
NonNull(c) ==
    Cardinality({i \in DOMAIN args.rows :
                    IF c = "age" THEN args.rows[i][c] # NaN ELSE args.rows[i][c] # NA})

Coerced(c) ==
    Cardinality({i \in DOMAIN args.rows :
                    IF c = "age" THEN args.rows[i][c] # NaN ELSE args.rows[i][c] = "7"})

\* C16: a forced covariate gets its forced type; an unforced one is numeric if
\* its column is numeric already, and otherwise numeric exactly when it has
\* non-missing values and at least 90% of them coerce to a number, else
\* categorical; the two lists partition the listed covariates, each in the
\* order listed.
C16_TypeInference ==
    (op = "_infer_covariate_types" /\ res.raised = "") =>
       LET numeric == res.value[1]
           categorical == res.value[2]
           is_numeric(c) == c \in Range(numeric)
           is_categorical(c) == c \in Range(categorical)
       IN /\ \A c \in Range(args.covariates) :
                /\ is_numeric(c) # is_categorical(c)
                /\ c \in args.force_numeric => is_numeric(c)
                /\ c \in args.force_categorical => is_categorical(c)
                /\ c \notin args.force_numeric \cup args.force_categorical =>
                      (is_numeric(c) <=>
                          \/ c = "age"
                          \/ NonNull(c) > 0 /\ 10 * Coerced(c) >= 9 * NonNull(c))
          /\ numeric = SelectSeq(args.covariates, is_numeric)
          /\ categorical = SelectSeq(args.covariates, is_categorical)

\* nine of the ten non-missing values of the object column read as a number:
\* exactly 90%, and the column is numeric
C16_Witness ==
    /\ op = "_infer_covariate_types"
    /\ args.covariates = <<"code", "age">>
    /\ args.force_numeric = {}
    /\ args.force_categorical = {}
    /\ NonNull("code") = 10
    /\ Coerced("code") = 9
    /\ Len(args.rows) = 11
    /\ res = Returned(<<(<<"code", "age">>), <<>>>>)

-----------------------------------------------------------------------------
(* Properties of rows with a missing categorical value *)

\* the level of categorical covariate c in row i of the table handed in
LevelOf(c, i) == astype_string(c, args.df.rows[i][c])

\* the rows of the table handed in that the feature matrix retains
Retained == {res.value.X.rows[k].index : k \in DOMAIN res.value.X.rows}

\* the feature row of retained row i
FeatureRow(i) ==
    (CHOOSE r \in Range(res.value.X.rows) : r.index = i).cells

\* rows i and j agree on the group indicator and on every covariate but c
AgreeBut(c, i, j) ==
    \A x \in ({args.group_indicator_col} \cup Range(args.covariates)) \ {c} :
       args.df.rows[i][x] = args.df.rows[j][x]

\* C18: a row whose categorical covariate c is missing has 0 in every
\* indicator column of c; when its outcome, group indicator and numeric
\* covariates are present it is retained under every drop policy, `any`
\* included, with no missing cell, and its feature row equals that of any
\* retained row at the reference level of c that agrees with it elsewhere.
C18_MissingCategoryIsReference ==
    (op = "build_design_matrix" /\ res.raised = "") =>
       \A c \in Range(res.value.meta.categorical_covariates) :
       \A i \in DOMAIN args.df.rows :
          LevelOf(c, i) = NA =>
             /\ i \in Retained =>
                   \A n \in IndicatorColumns(c) : FeatureRow(i)[n] = Num(0)
             /\ (~OutcomeMissing(i) /\ ~FeatureMissing(i)) =>
                   /\ i \in Retained
                   /\ \A n \in Range(res.value.X.columns) : ~IsNaN(FeatureRow(i)[n])
                   /\ \A j \in Retained :
                         (/\ Levels(c) # {}
                          /\ LevelOf(c, j) = SortedFirst(Levels(c))
                          /\ AgreeBut(c, i, j)) => FeatureRow(i) = FeatureRow(j)

\* under `any`, a row without county is retained next to rows of counties A
\* and B, with 0 in county_B like the row of the reference county A
C18_Witness ==
    /\ op = "build_design_matrix"
    /\ res.raised = ""
    /\ args.drop_missing = "any"
    /\ args.covariates = <<"age", "county">>
    /\ Len(args.df.rows) = 3
    /\ args.df.rows[1].county = "A"
    /\ args.df.rows[2].county = "B"
    /\ args.df.rows[3].county = NA
    /\ Retained = {1, 2, 3}
    /\ res.value.X.columns = <<"const", "group", "age", "county_B">>
    /\ FeatureRow(3)["county_B"] = Num(0)
    /\ FeatureRow(3) = FeatureRow(1)
    /\ FeatureRow(3) # FeatureRow(2)

-----------------------------------------------------------------------------
(* Properties of the command line *)

\* the cohort handed to main holds a row of each of the two groups
BothGroupsPresent ==
    /\ \E i \in DOMAIN args.cohort : args.cohort[i].group = args.exposed
    /\ \E i \in DOMAIN args.cohort : args.cohort[i].group = args.unexposed

\* C17: in 2x2 mode, once the cohort holds both groups, main builds the table,
\* calls compute_bias_metrics with alpha, the continuity correction and the
\* Yates flag, and emits the bundle of inputs, table and metrics without an
\* error.
C17_Main2x2Completes ==
    (op = "main" /\ args.mode = "2x2" /\ BothGroupsPresent) =>
       /\ res.raised = ""
       /\ DOMAIN res.value = {"inputs", "table", "metrics"}
       /\ res.value.metrics.table = res.value.table

\* one row of each group, no correction, no Yates flag: the call of the
\* aggregator is refused
C17_Witness ==
    /\ op = "main"
    /\ Len(args.cohort) = 2
    /\ args.cohort[1] = [group |-> "A", outcome |-> Num(Fx(1))]
    /\ args.cohort[2] = [group |-> "B", outcome |-> Num(0)]
    /\ args.continuity_correction = None
    /\ ~args.chi2_yates
    /\ res = Raised("TypeError")

-----------------------------------------------------------------------------
(* Properties of the fitter *)

\* the design matrix was built and handed to the solver, and the
\* unregularized fit succeeded
UnregularizedFitSucceeded ==
    /\ build_design_matrix(args.df, args.outcome_col, args.group_indicator_col,
                           args.covariates, args.drop_missing, args.add_intercept,
                           args.force_categorical, args.force_numeric).raised = ""
    /\ res.raised # "MissingDataError"
    /\ args.lib.fit = "ok"

\* the installed build has a way to a robust covariance: one of the two
\* methods of the results object, or a fit that takes cov_type
RobustEntryPoint ==
    \/ args.lib.attrs # {}
    \/ args.lib.fit_accepts_cov_type

\* every row of the result reports the p-value and the confidence interval
\* of the given covariance type
RowsReport(cov_type) ==
    \A k \in DOMAIN res.value.results :
       LET row == res.value.results[k]
       IN /\ row.p_value = LibPValue(cov_type)
          /\ row.ci_low = Num(ExpFx(row.coef.v - LibHalfWidth(cov_type)))
          /\ row.ci_high = Num(ExpFx(row.coef.v + LibHalfWidth(cov_type)))

\* C13: when robust standard errors are requested and the unregularized fit
\* succeeds, the p-values and confidence intervals reported are those of the
\* HC1 covariance; if the results object offers no usable way to a robust
\* covariance, fit_logit fails with an error and returns no statistics.
C13_RobustOrError ==
    (op = "fit_logit" /\ args.robust_se /\ UnregularizedFitSucceeded) =>
       IF RobustEntryPoint
       THEN res.raised = "" /\ RowsReport("HC1")
       ELSE res.raised # ""

\* robust standard errors requested of a build with no way to a robust
\* covariance: the statistics returned are the non-robust ones
C13_Witness ==
    /\ op = "fit_logit"
    /\ args.robust_se
    /\ UnregularizedFitSucceeded
    /\ ~RobustEntryPoint
    /\ res.raised = ""
    /\ ~res.value.used_regularized
    /\ res.value.results # <<>>
    /\ RowsReport("nonrobust")

\* the design matrix was built and accepted by sm.Logit
ModelBuilt ==
    /\ build_design_matrix(args.df, args.outcome_col, args.group_indicator_col,
                           args.covariates, args.drop_missing, args.add_intercept,
                           args.force_categorical, args.force_numeric).raised = ""
    /\ res.raised # "MissingDataError"

\* C14: used_regularized is true exactly when the unregularized fit raised
\* PerfectSeparationError and the model was refitted with L1 regularization;
\* then every row has ci_low, ci_high and p_value NaN, and coef and or =
\* exp(coef) of the regularized fit; when it is false the rows are those of
\* the unregularized fit.  Any other failure of a fit propagates.
C14_RegularizedFallback ==
    (op = "fit_logit" /\ ModelBuilt) =>
       /\ res.raised = "" <=>
             \/ args.lib.fit = "ok"
             \/ args.lib.fit = "PerfectSeparationError" /\ args.lib.fit_regularized = "ok"
       /\ res.raised = "" =>
             /\ res.value.used_regularized <=> args.lib.fit = "PerfectSeparationError"
             /\ [k \in DOMAIN res.value.results |-> res.value.results[k].term]
                   = res.value.meta.terms
             /\ \A k \in DOMAIN res.value.results :
                   LET row == res.value.results[k]
                   IN /\ row.or = Num(ExpFx(row.coef.v))
                      /\ IF res.value.used_regularized
                         THEN /\ row.coef = Num(args.lib.coef - 100)
                              /\ IsNaN(row.ci_low) /\ IsNaN(row.ci_high)
                              /\ IsNaN(row.p_value)
                         ELSE /\ row.coef = Num(args.lib.coef)
                              /\ ~IsNaN(row.ci_low) /\ ~IsNaN(row.ci_high)
                              /\ ~IsNaN(row.p_value)
       /\ args.lib.fit = "LinAlgError" => res = Raised("LinAlgError")
       /\ (args.lib.fit = "PerfectSeparationError" /\ args.lib.fit_regularized # "ok") =>
             res = Raised(args.lib.fit_regularized)

\* perfect separation, refitted with L1: three terms, all with NaN statistics
C14_Witness ==
    /\ op = "fit_logit"
    /\ args.lib.fit = "PerfectSeparationError"
    /\ args.robust_se
    /\ res.raised = ""
    /\ res.value.used_regularized
    /\ Len(res.value.results) = 3
    /\ res.value.results[2].term = "group"
    /\ IsNaN(res.value.results[2].p_value)
    /\ res.value.results[2].coef = Num(900)

====
